---- MODULE Spec2Model ----
(***************************************************************************)
(* The validation engine and the submission lifecycle of the prior-        *)
(* authorization intake forms: PriorAuthForm (frontend/components/         *)
(* PriorAuthForm.tsx) and its predecessor ClaimSubmissionForm              *)
(* (ClaimSubmissionForm.tsx).  One form instance is mounted; every event   *)
(* handler runs to completion (React flushes a discrete event's state      *)
(* updates before the next event is dispatched), so each handler is one    *)
(* action.  Strings are sequences of one-character strings, so that the    *)
(* regular expressions, String.split and Date parsing of the code are      *)
(* computed, not assumed.  FormErrors is read by the components only       *)
(* through truthiness (errors.x && ...), so a key that is absent and a key  *)
(* holding the empty string are one value here, NoError.                    *)
(***************************************************************************)
EXTENDS Integers, Sequences, FiniteSets, TLC

VARIABLES
    form,         \* which component is mounted
    formData,     \* useState<FormData>
    errors,       \* useState<FormErrors>: the message shown for each field, NoError for none
    isSubmitting, \* useState(false)
    toast,        \* useState<{message, type} | null> (showSuccess in ClaimSubmissionForm)
    inflight,     \* the submit calls awaiting resolution, oldest first: the payload of each
    lastEvent     \* history: the last event dispatched and, for a file event, its file

vars == <<form, formData, errors, isSubmitting, toast, inflight, lastEvent>>

-----------------------------------------------------------------------------
(* Strings *)

Digits == {"0", "1", "2", "3", "4", "5", "6", "7", "8", "9"}

HexDigits == Digits \cup {"a", "b", "c", "d", "e", "f", "A", "B", "C", "D", "E", "F"}

EmptyStr == << >>

DigitValue(c) ==
    CASE c = "0" -> 0 [] c = "1" -> 1 [] c = "2" -> 2 [] c = "3" -> 3 [] c = "4" -> 4
      [] c = "5" -> 5 [] c = "6" -> 6 [] c = "7" -> 7 [] c = "8" -> 8 [] c = "9" -> 9

\* String.prototype.toLowerCase, on the letters file names are built from.
LowerChar(c) ==
    CASE c = "A" -> "a" [] c = "B" -> "b" [] c = "C" -> "c" [] c = "D" -> "d"
      [] c = "E" -> "e" [] c = "F" -> "f" [] c = "O" -> "o" [] c = "P" -> "p"
      [] c = "X" -> "x" [] OTHER -> c

toLowerCase(s) == [i \in 1..Len(s) |-> LowerChar(s[i])]

\* Mutant: a name without a '.' has no extension.
SplitPop_DottedOnly(s) ==
    LET dots == {i \in 1..Len(s) : s[i] = "."}
        last == IF dots = {} THEN Len(s) ELSE CHOOSE i \in dots : \A j \in dots : j <= i
    IN  SubSeq(s, last + 1, Len(s))

\* name.split('.').pop(): the text after the last '.', the whole name when it has none.
SplitPop(s) ==
    LET dots == {i \in 1..Len(s) : s[i] = "."}
        last == IF dots = {} THEN 0 ELSE CHOOSE i \in dots : \A j \in dots : j <= i
    IN  SubSeq(s, last + 1, Len(s))

UuidLength == 36

NpiLength == 10

MinNameLength == 2

\* /^[0-9a-fA-F-]{36}$/.test(value)
MatchesUuidPattern(s) ==
    /\ Len(s) = UuidLength
    /\ \A i \in 1..Len(s) : s[i] \in HexDigits \cup {"-"}

\* Mutant: the pattern without its anchors, /\d{10}/.
MatchesNpiPattern_Unanchored(s) ==
    \E start \in 1..Len(s) :
        /\ start + NpiLength - 1 <= Len(s)
        /\ \A i \in start..(start + NpiLength - 1) : s[i] \in Digits

\* /^\d{10}$/.test(value)
MatchesNpiPattern(s) ==
    /\ Len(s) = NpiLength
    /\ \A i \in 1..Len(s) : s[i] \in Digits

-----------------------------------------------------------------------------
(* Dates: new Date(value) on the value of an <input type="date">, which is  *)
(* the empty string or a date yyyy-mm-dd.  The time value is kept in days   *)
(* (the code's milliseconds are 86400000 times it, the same order).         *)

IsLeap(y) == (y % 4 = 0 /\ y % 100 # 0) \/ y % 400 = 0

DaysInMonth(y, m) ==
    CASE m \in {1, 3, 5, 7, 8, 10, 12} -> 31
      [] m \in {4, 6, 9, 11} -> 30
      [] OTHER -> IF IsLeap(y) THEN 29 ELSE 28

\* Days from 1970-01-01 to the civil date y-m-d (proleptic Gregorian calendar).
DaysFromCivil(y, m, d) ==
    LET yy  == IF m <= 2 THEN y - 1 ELSE y
        era == yy \div 400
        yoe == yy - era * 400
        mp  == IF m > 2 THEN m - 3 ELSE m + 9
        doy == (153 * mp + 2) \div 5 + d - 1
        doe == yoe * 365 + yoe \div 4 - yoe \div 100 + doy
    IN  era * 146097 + doe - 719468

\* new Date(s): [valid, days]; an unparsable string gives the Invalid Date (NaN).
NewDate(s) ==
    LET shaped == /\ Len(s) = 10
                  /\ \A i \in {1, 2, 3, 4, 6, 7, 9, 10} : s[i] \in Digits
                  /\ s[5] = "-" /\ s[8] = "-"
        y == 1000 * DigitValue(s[1]) + 100 * DigitValue(s[2])
               + 10 * DigitValue(s[3]) + DigitValue(s[4])
        m == 10 * DigitValue(s[6]) + DigitValue(s[7])
        d == 10 * DigitValue(s[9]) + DigitValue(s[10])
    IN  IF shaped /\ m \in 1..12 /\ d \in 1..DaysInMonth(y, m)
        THEN [valid |-> TRUE, days |-> DaysFromCivil(y, m, d)]
        ELSE [valid |-> FALSE, days |-> 0]

\* Mutant: <= in the place of <.
DateLess_OrEqual(a, b) == a.valid /\ b.valid /\ a.days <= b.days

\* a < b on two Date objects: false when either is the Invalid Date.
DateLess(a, b) == a.valid /\ b.valid /\ a.days < b.days

-----------------------------------------------------------------------------
(* The two components and their configuration *)

PriorAuthForm == "PriorAuthForm"

ClaimSubmissionForm == "ClaimSubmissionForm"

Forms == {PriorAuthForm, ClaimSubmissionForm}

\* The keys of FormData that carry text, in declaration order.
TextFields ==
    <<"patientId", "dob", "physicianName", "npiNumber", "procedureCode", "startDate", "endDate">>

TextFieldSet == {TextFields[i] : i \in 1..Len(TextFields)}

\* File | null
NoFile == [name |-> EmptyStr, size |-> -1]

\* {message, type} | null
NoToast == [message |-> "", type |-> "none", file |-> EmptyStr]

Toast(message, type) == [message |-> message, type |-> type, file |-> EmptyStr]

\* useState initialisers
InitialFormData ==
    [patientId |-> EmptyStr, dob |-> EmptyStr, physicianName |-> EmptyStr,
     npiNumber |-> EmptyStr, procedureCode |-> EmptyStr, startDate |-> EmptyStr,
     endDate |-> EmptyStr, hasNotes |-> FALSE, uploadedFile |-> NoFile]

\* Object.keys(formData) without 'hasNotes': ClaimSubmissionForm has no uploadedFile.
ValidatedKeys(f) ==
    IF f = PriorAuthForm THEN TextFieldSet \cup {"uploadedFile"} ELSE TextFieldSet

-----------------------------------------------------------------------------
(* FieldValidator *)

NoError == ""

\* Mutant: only null and undefined count, the empty string does not.
Falsy_Nullish(value) == FALSE

\* !value, for the string values of the validated fields
Falsy(value) == value = EmptyStr

validateField(f, data, name, value) ==
    CASE name = "patientId" ->
            IF Falsy(value) THEN "Patient ID is required"
            ELSE IF f = PriorAuthForm /\ ~MatchesUuidPattern(value) /\ Len(value) > 0
                 THEN "Invalid UUID format (e.g., 123e4567-e89b-12d3-a456-426614174000)"
                 ELSE NoError
      [] name = "dob" ->
            IF Falsy(value) THEN "Date of Birth is required" ELSE NoError
      [] name = "physicianName" ->
            IF Falsy(value) THEN "Physician Name is required"
            ELSE IF f = PriorAuthForm /\ Len(value) < MinNameLength
                 THEN "Name must be at least 2 characters"
                 ELSE NoError
      [] name = "npiNumber" ->
            IF Falsy(value) THEN "NPI Number is required"
            ELSE IF ~MatchesNpiPattern(value) THEN "NPI must be exactly 10 digits"
                 ELSE NoError
      [] name = "procedureCode" ->
            IF Falsy(value) THEN "Procedure Code is required" ELSE NoError
      [] name = "startDate" ->
            IF Falsy(value) THEN "Start Date is required" ELSE NoError
      [] name = "endDate" ->
            IF Falsy(value) THEN "End Date is required"
            ELSE IF ~Falsy(data.startDate)
                    /\ DateLess(NewDate(value), NewDate(data.startDate))
                 THEN "End Date cannot be before Start Date"
                 ELSE NoError
      [] OTHER -> NoError

\* useState<FormErrors>({})
NoErrors == [k \in TextFieldSet |-> NoError]

\* setErrors(prev => ({ ...prev, [name]: error }))
SetError(errs, name, error) == [errs EXCEPT ![name] = error]

\* The literals of the explicit required checks of PriorAuthForm.isFormValid.
RequiredMessage(k) ==
    CASE k = "patientId" -> "Patient ID is required"
      [] k = "dob" -> "Date of Birth is required"
      [] k = "physicianName" -> "Physician Name is required"
      [] k = "npiNumber" -> "NPI Number is required"
      [] k = "procedureCode" -> "Procedure Code is required"
      [] k = "startDate" -> "Start Date is required"
      [] k = "endDate" -> "End Date is required"

\* Mutant: the new errors are merged into the errors on display.
isFormValid_Merges(f, data) ==
    LET failing == {k \in TextFieldSet : validateField(f, data, k, data[k]) # NoError}
    IN  [valid |-> failing = {},
         newErrors |-> [k \in TextFieldSet |->
                           IF k \in failing THEN validateField(f, data, k, data[k])
                           ELSE errors[k]]]

\* Mutant: the form is judged by the errors on display instead of being
\* validated afresh.
isFormValid_FromDisplay(f, data) ==
    [valid |-> \A k \in TextFieldSet : errors[k] = NoError, newErrors |-> errors]

\* Mutant: fail-fast validation, reporting only the first failing field.
isFormValid_FailFast(f, data) ==
    LET failing == {i \in 1..Len(TextFields) :
                       validateField(f, data, TextFields[i], data[TextFields[i]]) # NoError}
        first   == IF failing = {} THEN 0 ELSE CHOOSE i \in failing : \A j \in failing : i <= j
    IN  [valid |-> failing = {},
         newErrors |-> [k \in TextFieldSet |->
                           IF first # 0 /\ k = TextFields[first]
                           THEN validateField(f, data, k, data[k]) ELSE NoError]]

\* isFormValid: [valid, newErrors].  The key-by-key pass, then the explicit
\* required checks of PriorAuthForm, which overwrite with the same messages.
isFormValid(f, data) ==
    LET failing  == {k \in ValidatedKeys(f) : validateField(f, data, k, data[k]) # NoError}
        required == IF f = PriorAuthForm
                    THEN {k \in TextFieldSet : Falsy(data[k])}
                    ELSE {}
        newErrors == [k \in TextFieldSet |->
                         IF k \in required THEN RequiredMessage(k)
                         ELSE IF k \in failing THEN validateField(f, data, k, data[k])
                         ELSE NoError]
    IN  [valid |-> failing = {} /\ required = {}, newErrors |-> newErrors]

-----------------------------------------------------------------------------
(* Attachment gating (PriorAuthForm.handleFileChange) *)

Str_pdf == <<".", "p", "d", "f">>

Str_doc == <<".", "d", "o", "c">>

Str_docx == <<".", "d", "o", "c", "x">>

allowedTypes == {Str_pdf, Str_doc, Str_docx}

\* 10 * 1024 * 1024
maxSize == 10485760

\* '.' + file.name.split('.').pop()?.toLowerCase()
fileExt(file) == <<".">> \o toLowerCase(SplitPop(file.name))

TypeAllowed(file) == fileExt(file) \in allowedTypes

SizeAllowed(file) == ~(file.size > maxSize)

FileReadyToast(file) ==
    [message |-> "File ${file.name} ready to upload.", type |-> "success", file |-> file.name]

InvalidTypeToast ==
    Toast("Invalid file type. Only PDF, DOC, and DOCX files are allowed.", "error")

TooLargeToast == Toast("File too large. Maximum size is 10MB.", "error")

FixErrorsToast == Toast("Please fix the validation errors before submitting.", "error")

SubmitSuccessToast == Toast("Prior Authorization Request submitted successfully.", "success")

SubmitErrorToast == Toast("An error occurred while submitting the request.", "error")

-----------------------------------------------------------------------------
(* The values the events deliver *)

SampleUuid ==
    <<"1", "2", "3", "e", "4", "5", "6", "7", "-", "e", "8", "9", "b", "-", "1", "2", "d", "3",
      "-", "a", "4", "5", "6", "-", "4", "2", "6", "6", "1", "4", "1", "7", "4", "0", "0", "0">>

SampleDob == <<"1", "9", "8", "0", "-", "0", "2", "-", "2", "9">>

SampleName == <<"D", "r">>

SampleNpi == <<"1", "2", "3", "4", "5", "6", "7", "8", "9", "0">>

SampleShortNpi == <<"1", "2", "3", "4", "5", "6", "7", "8", "9">>

Date_2024_01_01 == <<"2", "0", "2", "4", "-", "0", "1", "-", "0", "1">>

Date_2024_01_05 == <<"2", "0", "2", "4", "-", "0", "1", "-", "0", "5">>

Date_2024_01_10 == <<"2", "0", "2", "4", "-", "0", "1", "-", "1", "0">>

\* PROCEDURE_CODES: the option values of the select, the placeholder first.
PROCEDURE_CODES(f) ==
    IF f = PriorAuthForm
    THEN <<EmptyStr, <<"A", "8", "7", "6">>, <<"B", "9", "0", "1">>,
           <<"C", "1", "0", "2">>, <<"D", "2", "0", "3">> >>
    ELSE <<EmptyStr, <<"9", "9", "2", "1", "3">>, <<"9", "9", "2", "1", "4">>,
           <<"7", "1", "0", "4", "5">>, <<"9", "3", "0", "0", "0">> >>

\* How many of the configured procedure codes the select offers in the model.
MaxCodes == 1

\* The options a user can pick: the placeholder option is disabled.
SelectableCodes(f) ==
    {PROCEDURE_CODES(f)[i] : i \in {j \in 2..Len(PROCEDURE_CODES(f)) : j <= MaxCodes + 1}}

\* The values an element bound to handleChange under `name` can deliver.
\* PriorAuthForm renders no element named hasNotes; ClaimSubmissionForm binds
\* its hasNotes checkbox to handleChange.
ChangeInputs(f, name) ==
    CASE name = "patientId" -> {EmptyStr, SampleUuid}
      [] name = "dob" -> {EmptyStr, SampleDob}
      [] name = "physicianName" -> {EmptyStr, SampleName}
      [] name = "npiNumber" -> {EmptyStr, SampleNpi, SampleShortNpi}
      [] name = "procedureCode" -> SelectableCodes(f)
      [] name = "startDate" -> {EmptyStr, Date_2024_01_01, Date_2024_01_10}
      [] name = "endDate" -> {EmptyStr, Date_2024_01_05}
      [] name = "hasNotes" -> IF f = ClaimSubmissionForm THEN BOOLEAN ELSE {}

ChangeNames == TextFieldSet \cup {"hasNotes"}

File(name, size) == [name |-> name, size |-> size]

Name_notes_pdf == <<"n", "o", "t", "e", "s", ".", "p", "d", "f">>

Name_notes_exe == <<"n", "o", "t", "e", "s", ".", "e", "x", "e">>

\* The files offered to the file input.
Files ==
    {File(Name_notes_pdf, 500000), File(Name_notes_pdf, 11000000),
     File(Name_notes_exe, 500000), File(Name_notes_exe, 11000000)}

\* What the awaited call may reject with: the value bound to `error` in the
\* catch clause of handleSubmit.
Rejections == {"Network Error", "Request failed with status code 500"}

NoRejection == ""

Event(op) == [op |-> op, file |-> NoFile, error |-> NoRejection]

FileEvent(op, file) == [op |-> op, file |-> file, error |-> NoRejection]

RejectionEvent(op, error) == [op |-> op, file |-> NoFile, error |-> error]

-----------------------------------------------------------------------------
(* State machine *)

\* Mutant: the form is validated when it is mounted.
Init_Validated ==
    /\ form \in Forms
    /\ formData = InitialFormData
    /\ errors = isFormValid(form, InitialFormData).newErrors
    /\ isSubmitting = FALSE
    /\ toast = NoToast
    /\ inflight = << >>
    /\ lastEvent = Event("mount")

Init ==
    /\ form \in Forms
    /\ formData = InitialFormData
    /\ errors = NoErrors
    /\ isSubmitting = FALSE
    /\ toast = NoToast
    /\ inflight = << >>
    /\ lastEvent = Event("mount")

\* Mutant: the field is validated on the value it had before the event.
handleChange_PreviousValue(name, newValue) ==
    /\ newValue \in ChangeInputs(form, name)
    /\ newValue # formData[name]
    /\ formData' = [formData EXCEPT ![name] = newValue]
    /\ errors' = IF name # "hasNotes"
                 THEN SetError(errors, name, validateField(form, formData, name, formData[name]))
                 ELSE errors
    /\ lastEvent' = Event("change")
    /\ UNCHANGED <<form, isSubmitting, toast, inflight>>

\* Mutant: change events are dropped while the call is pending.
handleChange_IdleOnly(name, newValue) ==
    /\ ~isSubmitting
    /\ newValue \in ChangeInputs(form, name)
    /\ newValue # formData[name]
    /\ formData' = [formData EXCEPT ![name] = newValue]
    /\ errors' = IF name # "hasNotes"
                 THEN SetError(errors, name, validateField(form, formData, name, newValue))
                 ELSE errors
    /\ lastEvent' = Event("change")
    /\ UNCHANGED <<form, isSubmitting, toast, inflight>>

\* handleChange: a change event of the element named `name` carrying newValue.
handleChange(name, newValue) ==
    /\ newValue \in ChangeInputs(form, name)
    /\ newValue # formData[name]
    /\ formData' = [formData EXCEPT ![name] = newValue]
    /\ errors' = IF name # "hasNotes"
                 THEN SetError(errors, name, validateField(form, formData, name, newValue))
                 ELSE errors
    /\ lastEvent' = Event("change")
    /\ UNCHANGED <<form, isSubmitting, toast, inflight>>

\* Mutant: a field that is still empty is not validated on blur.
handleBlur_SkipsEmpty(name) ==
    /\ errors' = IF formData[name] = EmptyStr
                 THEN errors
                 ELSE SetError(errors, name, validateField(form, formData, name, formData[name]))
    /\ lastEvent' = Event("blur")
    /\ UNCHANGED <<form, formData, isSubmitting, toast, inflight>>

\* handleBlur: the element's value is the controlled value formData[name].
handleBlur(name) ==
    /\ errors' = SetError(errors, name, validateField(form, formData, name, formData[name]))
    /\ lastEvent' = Event("blur")
    /\ UNCHANGED <<form, formData, isSubmitting, toast, inflight>>

\* Mutant: the size check made before the type check.
handleFileChange_SizeFirst(file) ==
    /\ form = PriorAuthForm
    /\ IF file = NoFile
       THEN /\ lastEvent' = FileEvent("file_none", file)
            /\ UNCHANGED <<formData, toast>>
       ELSE IF ~SizeAllowed(file)
       THEN /\ toast' = TooLargeToast
            /\ lastEvent' = FileEvent("file_reject_size", file)
            /\ UNCHANGED formData
       ELSE IF ~TypeAllowed(file)
       THEN /\ toast' = InvalidTypeToast
            /\ lastEvent' = FileEvent("file_reject_type", file)
            /\ UNCHANGED formData
       ELSE /\ formData' = [formData EXCEPT !.uploadedFile = file, !.hasNotes = TRUE]
            /\ toast' = FileReadyToast(file)
            /\ lastEvent' = FileEvent("file_accept", file)
    /\ UNCHANGED <<form, errors, isSubmitting, inflight>>

\* handleFileChange: a change event of the file input (PriorAuthForm only);
\* file is e.target.files?.[0], NoFile when the selection is empty.
handleFileChange(file) ==
    /\ form = PriorAuthForm
    /\ IF file = NoFile
       THEN /\ lastEvent' = FileEvent("file_none", file)
            /\ UNCHANGED <<formData, toast>>
       ELSE IF ~TypeAllowed(file)
       THEN /\ toast' = InvalidTypeToast
            /\ lastEvent' = FileEvent("file_reject_type", file)
            /\ UNCHANGED formData
       ELSE IF ~SizeAllowed(file)
       THEN /\ toast' = TooLargeToast
            /\ lastEvent' = FileEvent("file_reject_size", file)
            /\ UNCHANGED formData
       ELSE /\ formData' = [formData EXCEPT !.uploadedFile = file, !.hasNotes = TRUE]
            /\ toast' = FileReadyToast(file)
            /\ lastEvent' = FileEvent("file_accept", file)
    /\ UNCHANGED <<form, errors, isSubmitting, inflight>>

\* Mutant: the file is dropped and the flag is left set.
removeFile_KeepFlag ==
    /\ form = PriorAuthForm
    /\ formData.uploadedFile # NoFile
    /\ formData' = [formData EXCEPT !.uploadedFile = NoFile]
    /\ lastEvent' = Event("remove")
    /\ UNCHANGED <<form, errors, isSubmitting, toast, inflight>>

\* removeFile: the remove button is rendered only while a file is attached.
removeFile ==
    /\ form = PriorAuthForm
    /\ formData.uploadedFile # NoFile
    /\ formData' = [formData EXCEPT !.uploadedFile = NoFile, !.hasNotes = FALSE]
    /\ lastEvent' = Event("remove")
    /\ UNCHANGED <<form, errors, isSubmitting, toast, inflight>>

\* Mutant: the submit button is never disabled.
SubmitDisabled_Never == FALSE

\* The submit button is rendered with disabled={isSubmitting}: a disabled
\* default button dispatches no submit event, by click or by implicit submission.
SubmitDisabled == isSubmitting

\* submit(payload): what the call the code simulates is given.
Payload(data) == data

\* Mutant: the submit goes ahead when no error is on display.
handleSubmit_TrustsDisplay ==
    LET v == isFormValid(form, formData)
    IN  IF \E k \in TextFieldSet : errors[k] # NoError
        THEN /\ errors' = v.newErrors
             /\ toast' = IF form = PriorAuthForm THEN FixErrorsToast ELSE toast
             /\ lastEvent' = Event("submit_invalid")
             /\ UNCHANGED <<form, formData, isSubmitting, inflight>>
        ELSE /\ isSubmitting' = TRUE
             /\ toast' = IF form = PriorAuthForm THEN NoToast ELSE toast
             /\ inflight' = Append(inflight, Payload(formData))
             /\ lastEvent' = Event("submit_start")
             /\ UNCHANGED <<form, formData, errors>>

\* Mutant: setIsSubmitting(true) is forgotten.
handleSubmit_NoFlag ==
    LET v == isFormValid(form, formData)
    IN  /\ errors' = v.newErrors
        /\ IF ~v.valid
           THEN /\ toast' = IF form = PriorAuthForm THEN FixErrorsToast ELSE toast
                /\ lastEvent' = Event("submit_invalid")
                /\ UNCHANGED <<isSubmitting, inflight>>
           ELSE /\ UNCHANGED isSubmitting
                /\ toast' = IF form = PriorAuthForm THEN NoToast ELSE toast
                /\ inflight' = Append(inflight, Payload(formData))
                /\ lastEvent' = Event("submit_start")
        /\ UNCHANGED <<form, formData>>

\* Mutant: the result of isFormValid is ignored.
handleSubmit_SkipValidation ==
    LET v == isFormValid(form, formData)
    IN  /\ errors' = v.newErrors
        /\ isSubmitting' = TRUE
        /\ toast' = IF form = PriorAuthForm THEN NoToast ELSE toast
        /\ inflight' = Append(inflight, Payload(formData))
        /\ lastEvent' = Event("submit_start")
        /\ UNCHANGED <<form, formData>>

\* handleSubmit up to its await.
handleSubmit ==
    LET v == isFormValid(form, formData)
    IN  /\ errors' = v.newErrors
        /\ IF ~v.valid
           THEN /\ toast' = IF form = PriorAuthForm THEN FixErrorsToast ELSE toast
                /\ lastEvent' = Event("submit_invalid")
                /\ UNCHANGED <<isSubmitting, inflight>>
           ELSE /\ isSubmitting' = TRUE
                /\ toast' = IF form = PriorAuthForm THEN NoToast ELSE toast
                /\ inflight' = Append(inflight, Payload(formData))
                /\ lastEvent' = Event("submit_start")
        /\ UNCHANGED <<form, formData>>

\* The user activates the submit button (or submits implicitly from a field).
Submit ==
    IF SubmitDisabled
    THEN /\ lastEvent' = Event("submit_blocked")
         /\ UNCHANGED <<form, formData, errors, isSubmitting, toast, inflight>>
    ELSE handleSubmit

\* Mutant: the success notification is shown only into an empty slot.
SubmitResolved_KeepsToast ==
    /\ inflight # << >>
    /\ inflight' = Tail(inflight)
    /\ isSubmitting' = FALSE
    /\ toast' = IF toast = NoToast THEN SubmitSuccessToast ELSE toast
    /\ lastEvent' = Event("resolve_ok")
    /\ UNCHANGED <<form, formData, errors>>

\* The awaited call resolves: the rest of handleSubmit's try block.
SubmitResolved ==
    /\ inflight # << >>
    /\ inflight' = Tail(inflight)
    /\ isSubmitting' = FALSE
    /\ toast' = SubmitSuccessToast
    /\ lastEvent' = Event("resolve_ok")
    /\ UNCHANGED <<form, formData, errors>>

\* Mutant: the catch block makes the call again.
SubmitRejected_Retries(error) ==
    /\ form = PriorAuthForm
    /\ inflight # << >>
    /\ inflight' = Append(Tail(inflight), Head(inflight))
    /\ lastEvent' = RejectionEvent("resolve_err", error)
    /\ UNCHANGED <<form, formData, errors, isSubmitting, toast>>

\* Mutant: the catch block forgets setIsSubmitting(false).
SubmitRejected_KeepsFlag(error) ==
    /\ form = PriorAuthForm
    /\ inflight # << >>
    /\ inflight' = Tail(inflight)
    /\ toast' = SubmitErrorToast
    /\ lastEvent' = RejectionEvent("resolve_err", error)
    /\ UNCHANGED <<form, formData, errors, isSubmitting>>

\* The awaited call rejects: handleSubmit's catch block (PriorAuthForm; the
\* call of ClaimSubmissionForm is a timer that cannot reject and has no catch).
\* The caught error is not read: the toast carries a fixed message.
SubmitRejected(error) ==
    /\ form = PriorAuthForm
    /\ inflight # << >>
    /\ inflight' = Tail(inflight)
    /\ isSubmitting' = FALSE
    /\ toast' = SubmitErrorToast
    /\ lastEvent' = RejectionEvent("resolve_err", error)
    /\ UNCHANGED <<form, formData, errors>>

\* Toast onClose: setToast(null) / setShowSuccess(false)
closeToast ==
    /\ toast # NoToast
    /\ toast' = NoToast
    /\ lastEvent' = Event("close")
    /\ UNCHANGED <<form, formData, errors, isSubmitting, inflight>>

Next ==
    \/ \E name \in ChangeNames : \E newValue \in ChangeInputs(form, name) :
           handleChange(name, newValue)
    \/ \E name \in TextFieldSet : handleBlur(name)
    \/ \E file \in Files \cup {NoFile} : handleFileChange(file)
    \/ removeFile
    \/ Submit
    \/ SubmitResolved
    \/ \E error \in Rejections : SubmitRejected(error)
    \/ closeToast

Spec == Init /\ [][Next]_vars

\* The awaited call resolves to exactly one outcome, eventually.
FairSpec ==
    Spec /\ WF_vars(SubmitResolved \/ \E error \in Rejections : SubmitRejected(error))

-----------------------------------------------------------------------------
(* The attachment gate alone, on a wider range of file names and sizes *)

Name_scan_PDF == <<"s", "c", "a", "n", ".", "P", "D", "F">>

Name_a_b_docx == <<"a", ".", "b", ".", "d", "o", "c", "x">>

Name_x_doc == <<"x", ".", "d", "o", "c">>

Name_notes_pdf_exe == <<"n", "o", "t", "e", "s", ".", "p", "d", "f", ".", "e", "x", "e">>

Name_pdf == <<"p", "d", "f">>

Name_doc == <<"d", "o", "c">>

Name_docx == <<"d", "o", "c", "x">>

Name_notes == <<"n", "o", "t", "e", "s">>

Name_notes_dot == <<"n", "o", "t", "e", "s", ".">>

GateNames ==
    {Name_notes_pdf, Name_notes_exe, Name_scan_PDF, Name_a_b_docx, Name_x_doc,
     Name_notes_pdf_exe, Name_pdf, Name_doc, Name_docx, Name_notes, Name_notes_dot}

GateSizes == {0, 500000, maxSize - 1, maxSize, maxSize + 1, 11000000}

GateFiles == {File(n, sz) : n \in GateNames, sz \in GateSizes}

InitGate == Init /\ form = PriorAuthForm

NextGate ==
    \/ \E file \in GateFiles \cup {NoFile} : handleFileChange(file)
    \/ removeFile
    \/ closeToast

SpecGate == InitGate /\ [][NextGate]_vars

-----------------------------------------------------------------------------
(* validateField alone, on a wider range of values *)

Uuid_Upper ==
    <<"1", "2", "3", "E", "4", "5", "6", "7", "-", "E", "8", "9", "B", "-", "1", "2", "D", "3",
      "-", "A", "4", "5", "6", "-", "4", "2", "6", "6", "1", "4", "1", "7", "4", "0", "0", "0">>

\* 36 hyphens.
Uuid_Hyphens == [i \in 1..UuidLength |-> "-"]

\* 32 hex digits followed by the four hyphens.
Uuid_HyphensLast == [i \in 1..UuidLength |-> IF i <= 32 THEN SampleUuid[1] ELSE "-"]

\* The sample with its last character missing.
Uuid_Short == SubSeq(SampleUuid, 1, UuidLength - 1)

\* The sample with a letter that is no hex digit.
Uuid_NonHex == [SampleUuid EXCEPT ![1] = "g"]

Name_D == <<"D">>

Name_DrX == <<"D", "r", ".", " ", "X">>

Npi_11 == SampleNpi \o <<"1">>

Npi_Letter == [SampleNpi EXCEPT ![4] = "a"]

Npi_Space == [SampleNpi EXCEPT ![10] = " "]

Code_Unlisted == <<"Z", "9", "9", "9">>

Date_2023_12_31 == <<"2", "0", "2", "3", "-", "1", "2", "-", "3", "1">>

Date_2024_02_29 == <<"2", "0", "2", "4", "-", "0", "2", "-", "2", "9">>

Date_2024_03_01 == <<"2", "0", "2", "4", "-", "0", "3", "-", "0", "1">>

ValidatorDates ==
    {EmptyStr, Date_2023_12_31, Date_2024_01_01, Date_2024_01_05, Date_2024_01_10,
     Date_2024_02_29, Date_2024_03_01}

\* The values validateField is applied to, field by field.
ValidatorValues(f, name) ==
    CASE name = "patientId" ->
             {EmptyStr, SampleUuid, Uuid_Upper, Uuid_Hyphens, Uuid_HyphensLast,
              Uuid_Short, Uuid_NonHex}
      [] name = "dob" -> {EmptyStr, SampleDob}
      [] name = "physicianName" -> {EmptyStr, Name_D, SampleName, Name_DrX}
      [] name = "npiNumber" ->
             {EmptyStr, SampleNpi, SampleShortNpi, Npi_11, Npi_Letter, Npi_Space}
      [] name = "procedureCode" -> {EmptyStr, Code_Unlisted} \cup SelectableCodes(f)
      [] name = "startDate" -> ValidatorDates
      [] name = "endDate" -> ValidatorDates

\* One field set on the initial form, beside a start date.
InitValidator ==
    /\ form \in Forms
    /\ \E name \in TextFieldSet : \E value \in ValidatorValues(form, name) :
       \E start \in ValidatorDates :
           formData = [InitialFormData EXCEPT ![name] = value, !.startDate = start]
    /\ errors = NoErrors
    /\ isSubmitting = FALSE
    /\ toast = NoToast
    /\ inflight = << >>
    /\ lastEvent = Event("mount")

NextValidator == \E name \in TextFieldSet : handleBlur(name)

SpecValidator == InitValidator /\ [][NextValidator]_vars

-----------------------------------------------------------------------------
(* Vocabulary of the properties *)

\* The fields the validator rejects on the values of data.
InvalidFields(f, data) ==
    {k \in TextFieldSet : validateField(f, data, k, data[k]) # NoError}

\* The step is a submit event that reached handleSubmit.
SubmitHandled == lastEvent'.op \in {"submit_invalid", "submit_start"}

\* The step is a submit event, dispatched to the handler or not.
SubmitAttempted == lastEvent'.op \in {"submit_blocked", "submit_invalid", "submit_start"}

-----------------------------------------------------------------------------
(* C1: a submit attempted while the form is already submitting changes no   *)
(* form state and starts no second call: at most one call is ever in        *)
(* flight.                                                                  *)

C1_ReentryGuard ==
    /\ [](Len(inflight) <= 1)
    /\ [][(isSubmitting /\ SubmitAttempted) =>
              UNCHANGED <<form, formData, errors, isSubmitting, toast, inflight>>]_vars

C1_Witness ==
    /\ lastEvent.op = "submit_blocked"
    /\ isSubmitting
    /\ Len(inflight) = 1

(* C2: whenever a change event changes startDate while endDate holds a      *)
(* value, the error shown for endDate is recomputed against the new start   *)
(* date in that same step.                                                  *)

C2_DependencyPropagation ==
    [][(lastEvent'.op = "change"
        /\ formData'.startDate # formData.startDate
        /\ formData.endDate # EmptyStr) =>
           errors'.endDate = validateField(form, formData', "endDate", formData'.endDate)]_vars

(* C3: a submit handled in a state where at least one field is invalid      *)
(* leaves an error for every invalid field, does not enter Submitting and   *)
(* starts no call.                                                          *)

C3_SubmitReportsAllInvalid ==
    [][(SubmitHandled /\ InvalidFields(form, formData) # {}) =>
           /\ \A k \in InvalidFields(form, formData) :
                  /\ errors'[k] # NoError
                  /\ errors'[k] = validateField(form, formData, k, formData[k])
           /\ isSubmitting' = isSubmitting
           /\ ~isSubmitting'
           /\ inflight' = inflight]_vars

C3_Witness ==
    /\ lastEvent.op = "submit_invalid"
    /\ ~isSubmitting
    /\ inflight = << >>
    /\ formData.npiNumber = SampleShortNpi
    /\ Cardinality({k \in TextFieldSet : errors[k] # NoError}) >= 3
    /\ {k \in TextFieldSet : errors[k] # NoError} = InvalidFields(form, formData)

(* C4: in every reachable state hasNotes is true exactly when a file is     *)
(* attached.                                                                *)

C4_HasNotesIffAttachment == formData.hasNotes <=> (formData.uploadedFile # NoFile)

-----------------------------------------------------------------------------
(* The attachment constraints as the specification words them *)

ClaimedExtensions == {<<"p", "d", "f">>, <<"d", "o", "c">>, <<"d", "o", "c", "x">>}

ClaimedCeiling == 10 * 1024 * 1024

\* The name has an extension: some text follows its last dot.
HasExtension(file) ==
    \E i \in 1..Len(file.name) : file.name[i] = "."

\* The extension of a name that has one, lower-cased.
ExtensionOf(file) ==
    LET i == CHOOSE j \in 1..Len(file.name) :
                 /\ file.name[j] = "."
                 /\ \A k \in (j + 1)..Len(file.name) : file.name[k] # "."
    IN  toLowerCase(SubSeq(file.name, i + 1, Len(file.name)))

ExtensionAllowed(file) == HasExtension(file) /\ ExtensionOf(file) \in ClaimedExtensions

FileOffered == lastEvent.op \in {"file_accept", "file_reject_type", "file_reject_size"}

(* C5: a file offered to the file input is accepted exactly when its        *)
(* extension is pdf, doc or docx (in any case) and its size is at most      *)
(* 10485760 bytes; an accepted file becomes the attachment, sets hasNotes   *)
(* and raises a success notification.                                       *)

C5_AcceptedIffAllowed ==
    FileOffered =>
        /\ (lastEvent.op = "file_accept") <=>
               (ExtensionAllowed(lastEvent.file) /\ lastEvent.file.size <= ClaimedCeiling)
        /\ lastEvent.op = "file_accept" =>
               /\ formData.uploadedFile = lastEvent.file
               /\ formData.hasNotes
               /\ toast.type = "success"

(* C6: a rejected file changes nothing but the notification, which names    *)
(* the failed constraint; a file whose extension is not allowed is rejected *)
(* with the type notification whatever its size.                            *)

C6_RejectionFrame ==
    /\ [][lastEvent'.op \in {"file_reject_type", "file_reject_size"} =>
              /\ UNCHANGED <<form, formData, errors, isSubmitting, inflight>>
              /\ toast'.type = "error"]_vars
    /\ [](FileOffered /\ HasExtension(lastEvent.file) /\ ~ExtensionAllowed(lastEvent.file) =>
              /\ lastEvent.op = "file_reject_type"
              /\ toast = InvalidTypeToast)
    /\ [](FileOffered /\ ExtensionAllowed(lastEvent.file)
              /\ lastEvent.file.size > ClaimedCeiling =>
              /\ lastEvent.op = "file_reject_size"
              /\ toast = TooLargeToast)

C6_Witness ==
    /\ lastEvent.op = "file_reject_type"
    /\ lastEvent.file.size > ClaimedCeiling
    /\ toast = InvalidTypeToast
    /\ formData.uploadedFile = File(Name_notes_pdf, 500000)
    /\ formData.hasNotes

(* C7, as claimed: every clearing of the file input, by the remove button   *)
(* or by a change event that carries no file, leaves no attachment and      *)
(* hasNotes false, and changes nothing else.                                *)

C7_ClearingResets ==
    [][lastEvent'.op \in {"remove", "file_none"} =>
           /\ formData' = [formData EXCEPT !.uploadedFile = NoFile, !.hasNotes = FALSE]
           /\ UNCHANGED <<form, errors, isSubmitting, toast, inflight>>]_vars

(* C7, amended: removeFile leaves no attachment and hasNotes false and      *)
(* changes nothing else, also while submitting; a change event of the file  *)
(* input that carries no file changes nothing, so an attachment stays.      *)

C7_RemoveFileResets ==
    /\ [][lastEvent'.op = "remove" =>
              /\ formData' = [formData EXCEPT !.uploadedFile = NoFile, !.hasNotes = FALSE]
              /\ UNCHANGED <<form, errors, isSubmitting, toast, inflight>>]_vars
    /\ [][lastEvent'.op = "file_none" =>
              UNCHANGED <<form, formData, errors, isSubmitting, toast, inflight>>]_vars

C7_Witness ==
    /\ lastEvent.op = "remove"
    /\ isSubmitting
    /\ formData.uploadedFile = NoFile
    /\ ~formData.hasNotes
    /\ inflight # << >>
    /\ inflight[1].uploadedFile # NoFile

(* C8: a submit from a state that is not submitting, with every field       *)
(* valid, enters Submitting and starts exactly one call, carrying the form  *)
(* values of that moment; when the call succeeds the form leaves            *)
(* Submitting and shows the success notification.                           *)

C8_ValidSubmitLifecycle ==
    /\ [][(~isSubmitting /\ SubmitAttempted /\ InvalidFields(form, formData) = {}) =>
              /\ isSubmitting'
              /\ inflight = << >>
              /\ inflight' = <<formData>>
              /\ formData' = formData]_vars
    /\ [][lastEvent'.op = "resolve_ok" =>
              /\ isSubmitting
              /\ ~isSubmitting'
              /\ Len(inflight) = 1
              /\ inflight' = << >>
              /\ toast' = SubmitSuccessToast]_vars

C8_Witness ==
    /\ lastEvent.op = "resolve_ok"
    /\ ~isSubmitting
    /\ inflight = << >>
    /\ toast = SubmitSuccessToast
    /\ InvalidFields(form, formData) = {}

(* C9: every submitting state is followed by a state that is not            *)
(* submitting; the submit button is enabled whenever no submission is in    *)
(* flight; and right after a validation failure, a transport failure or a   *)
(* success the fields accept changes and blurs, the file input accepts      *)
(* files and the form accepts a new submit.                                 *)

Interactive ==
    /\ \A name \in TextFieldSet :
           /\ ENABLED handleBlur(name)
           /\ \A v \in ChangeInputs(form, name) \ {formData[name]} :
                  ENABLED handleChange(name, v)
    /\ form = PriorAuthForm => \A file \in Files : ENABLED handleFileChange(file)
    /\ ENABLED handleSubmit

AfterOutcome == lastEvent.op \in {"submit_invalid", "resolve_ok", "resolve_err"}

C9_NoStuckState ==
    /\ [](~isSubmitting => ~SubmitDisabled)
    /\ [](AfterOutcome => (~isSubmitting /\ Interactive))
    /\ isSubmitting ~> ~isSubmitting

C9_Witness ==
    /\ lastEvent.op = "change"
    /\ toast = SubmitErrorToast
    /\ ~isSubmitting
    /\ inflight = << >>

(* C10: in PriorAuthForm the status read from isSubmitting and the          *)
(* notification follows the lifecycle Idle -> {Failed(validation),          *)
(* Submitting -> {Succeeded, Failed(transport)}}: it starts Idle,           *)
(* Submitting is entered only by a submit whose validation passed and left  *)
(* only by the resolution of the call, a failed validation gives            *)
(* Failed(validation), and a finished state only returns to Idle.           *)

Status ==
    IF isSubmitting THEN "Submitting"
    ELSE IF toast = SubmitSuccessToast THEN "Succeeded"
    ELSE IF toast = SubmitErrorToast THEN "FailedTransport"
    ELSE IF toast = FixErrorsToast THEN "FailedValidation"
    ELSE "Idle"

LifecycleNext ==
    \/ /\ Status # "Submitting"
       /\ Status' = "Submitting"
       /\ SubmitHandled
       /\ InvalidFields(form, formData) = {}
    \/ /\ Status # "Submitting"
       /\ Status' = "FailedValidation"
       /\ SubmitHandled
       /\ InvalidFields(form, formData) # {}
    \/ /\ Status = "Submitting"
       /\ Status' = "Succeeded"
       /\ lastEvent'.op = "resolve_ok"
    \/ /\ Status = "Submitting"
       /\ Status' = "FailedTransport"
       /\ lastEvent'.op = "resolve_err"
    \/ /\ Status \in {"Succeeded", "FailedTransport", "FailedValidation"}
       /\ Status' = "Idle"
       /\ ~SubmitAttempted
    \/ /\ Status' = Status
       /\ ~SubmitHandled

C10_LifecycleRefinement ==
    /\ form = PriorAuthForm => Status = "Idle"
    /\ [][form = PriorAuthForm => LifecycleNext]_vars

C10_Witness ==
    /\ form = PriorAuthForm
    /\ Status = "FailedTransport"
    /\ lastEvent.op = "resolve_err"

-----------------------------------------------------------------------------
(* The outcome of the call *)

\* C11: when the call fails, the form leaves Submitting (isSubmitting is
\* false), the error notification carries the reason the call failed with,
\* formData is unchanged and the call is not made again.
C11_FailureCarriesReason ==
    [][lastEvent'.op = "resolve_err" =>
          /\ isSubmitting' = FALSE
          /\ toast'.type = "error"
          /\ toast'.message = lastEvent'.error
          /\ formData' = formData
          /\ inflight' = << >>]_vars

-----------------------------------------------------------------------------
(* Edits while the call is pending *)

\* A change or blur event has been handled as it is in any other state.
EditedAsUsual ==
    \/ /\ lastEvent'.op = "change"
       /\ \E name \in ChangeNames : \E newValue \in ChangeInputs(form, name) :
            /\ formData' = [formData EXCEPT ![name] = newValue]
            /\ formData' # formData
            /\ errors' = IF name = "hasNotes"
                         THEN errors
                         ELSE SetError(errors, name,
                                       validateField(form, formData, name, newValue))
    \/ /\ lastEvent'.op = "blur"
       /\ formData' = formData
       /\ \E name \in TextFieldSet :
            errors' = SetError(errors, name,
                               validateField(form, formData, name, formData[name]))

\* C12: while the call is pending, change and blur events are still handled
\* (formData and errors are updated as usual), and they leave the payload of
\* the pending call as it was: the formData of the moment of the submit.
C12_EditsWhileSubmitting ==
    /\ [](lastEvent.op = "submit_start" =>
            /\ isSubmitting
            /\ \A name \in TextFieldSet : ENABLED handleBlur(name)
            /\ \A name \in ChangeNames : \A newValue \in ChangeInputs(form, name) :
                   newValue # formData[name] => ENABLED handleChange(name, newValue))
    /\ [][lastEvent'.op = "submit_start" => inflight' = <<Payload(formData)>>]_vars
    /\ [][isSubmitting /\ lastEvent'.op \in {"change", "blur"} =>
            /\ EditedAsUsual
            /\ inflight' = inflight
            /\ isSubmitting']_vars

C12_Witness ==
    /\ isSubmitting
    /\ lastEvent.op = "change"
    /\ inflight # << >>
    /\ Head(inflight) # Payload(formData)
    /\ errors.npiNumber = "NPI must be exactly 10 digits"

-----------------------------------------------------------------------------
(* Whole-form validation *)

\* C13: isFormValid answers valid exactly when validateField finds no error in
\* any of the seven text fields on the current values, whatever has been
\* changed or blurred before; hasNotes and uploadedFile always validate to no
\* error and the errors isFormValid collects are those of the failing text
\* fields only.
C13_FormValidIffAllFieldsValid ==
    LET v == isFormValid(form, formData)
    IN  /\ v.valid <=>
              \A k \in TextFieldSet :
                  validateField(form, formData, k, formData[k]) = NoError
        /\ validateField(form, formData, "hasNotes", formData.hasNotes) = NoError
        /\ validateField(form, formData, "uploadedFile", formData.uploadedFile) = NoError
        /\ DOMAIN v.newErrors = TextFieldSet
        /\ \A k \in TextFieldSet :
              v.newErrors[k] # NoError <=>
                  validateField(form, formData, k, formData[k]) # NoError
        /\ lastEvent.op = "submit_start" => v.valid /\ errors = NoErrors
        /\ lastEvent.op = "submit_invalid" => ~v.valid /\ errors = v.newErrors

\* A submit is refused for a field that was never edited, although every
\* edited field is valid, a file is attached and no error was on display for
\* the failing field before.
C13_Witness ==
    /\ lastEvent.op = "submit_invalid"
    /\ formData.uploadedFile # NoFile
    /\ formData.hasNotes
    /\ formData.patientId = SampleUuid
    /\ formData.dob = EmptyStr
    /\ errors.dob = "Date of Birth is required"
    /\ errors.patientId = NoError

-----------------------------------------------------------------------------
(* Freshness of the errors on display *)

\* C14: no error on display is stale: in every reachable state, a field whose
\* entry in errors is not empty gets that same error from validateField on
\* its current value and the current formData.
C14_NoStaleError ==
    \A k \in TextFieldSet :
        errors[k] # NoError => errors[k] = validateField(form, formData, k, formData[k])

-----------------------------------------------------------------------------
(* The rules of the fields *)

\* Year, month and day of a date yyyy-mm-dd, as written.
YearOf(s) ==
    1000 * DigitValue(s[1]) + 100 * DigitValue(s[2]) + 10 * DigitValue(s[3]) + DigitValue(s[4])

MonthOf(s) == 10 * DigitValue(s[6]) + DigitValue(s[7])

DayOf(s) == 10 * DigitValue(s[9]) + DigitValue(s[10])

\* a is an earlier day of the calendar than b.
CalendarBefore(a, b) ==
    \/ YearOf(a) < YearOf(b)
    \/ YearOf(a) = YearOf(b) /\ MonthOf(a) < MonthOf(b)
    \/ YearOf(a) = YearOf(b) /\ MonthOf(a) = MonthOf(b) /\ DayOf(a) < DayOf(b)

\* C15: for endDate, validateField returns "End Date is required" on the empty
\* value, "End Date cannot be before Start Date" exactly when both dates are
\* set and the end is an earlier calendar day than the start, and no error
\* otherwise: equal dates, a later end and an empty start raise no ordering
\* error.
C15_EndDateRule ==
    LET end   == formData.endDate
        start == formData.startDate
        rule  == IF end = EmptyStr THEN "End Date is required"
                 ELSE IF start # EmptyStr /\ CalendarBefore(end, start)
                      THEN "End Date cannot be before Start Date"
                      ELSE NoError
    IN  /\ validateField(form, formData, "endDate", end) = rule
        /\ errors.endDate \in {NoError, rule}

\* A blur has shown the ordering error for an end on the last day of February
\* and a start on the first of March.
C15_Witness ==
    /\ lastEvent.op = "blur"
    /\ formData.startDate = Date_2024_03_01
    /\ formData.endDate = Date_2024_02_29
    /\ errors.endDate = "End Date cannot be before Start Date"

\* A UUID as it is canonically written: 36 characters, hex digits in groups
\* of 8, 4, 4, 4 and 12 with a hyphen between them.
HyphenPositions == {9, 14, 19, 24}

CanonicalUuid(s) ==
    /\ Len(s) = UuidLength
    /\ \A i \in 1..Len(s) :
          IF i \in HyphenPositions THEN s[i] = "-" ELSE s[i] \in HexDigits

\* C16: for patientId, validateField returns "Patient ID is required" on the
\* empty value, exactly "Invalid UUID format" on every other value that is not
\* a canonical UUID, and no error only on a canonical UUID.
C16_PatientIdRule ==
    LET value == formData.patientId
    IN  validateField(form, formData, "patientId", value) =
            IF value = EmptyStr THEN "Patient ID is required"
            ELSE IF ~CanonicalUuid(value) THEN "Invalid UUID format"
            ELSE NoError

\* The string is ten characters long and each of them is a decimal digit.
TenDigits(s) ==
    /\ Len(s) = NpiLength
    /\ {s[i] : i \in 1..Len(s)} \subseteq Digits

\* C18: for npiNumber, validateField returns "NPI Number is required" on the
\* empty value, no error exactly on a string of exactly ten decimal digits,
\* and "NPI must be exactly 10 digits" on every other value.
C18_NpiRule ==
    LET value == formData.npiNumber
        rule  == IF value = EmptyStr THEN "NPI Number is required"
                 ELSE IF TenDigits(value) THEN NoError
                 ELSE "NPI must be exactly 10 digits"
    IN  /\ validateField(form, formData, "npiNumber", value) = rule
        /\ errors.npiNumber \in {NoError, rule}

\* A blur has rejected eleven digits.
C18_Witness ==
    /\ lastEvent.op = "blur"
    /\ formData.npiNumber = Npi_11
    /\ errors.npiNumber = "NPI must be exactly 10 digits"

\* The codes the component is configured with, the placeholder left out.
ConfiguredCodes(f) == {PROCEDURE_CODES(f)[i] : i \in 2..Len(PROCEDURE_CODES(f))}

\* C17 as stated: for procedureCode, validateField returns no error only on
\* one of the configured codes; the empty placeholder and every value outside
\* the configured set get "Procedure Code is required".
C17_ProcedureCodeConfigured ==
    LET value == formData.procedureCode
    IN  validateField(form, formData, "procedureCode", value) =
            IF value \in ConfiguredCodes(form) THEN NoError
            ELSE "Procedure Code is required"

\* C17, amended: for procedureCode, validateField returns "Procedure Code is
\* required" exactly on the empty placeholder value and no error on every
\* other value, configured or not.
C17_ProcedureCodeRequired ==
    LET value == formData.procedureCode
        rule  == IF value = EmptyStr THEN "Procedure Code is required" ELSE NoError
    IN  /\ validateField(form, formData, "procedureCode", value) = rule
        /\ errors.procedureCode \in {NoError, rule}

\* Every field has been blurred on a form whose procedure code is no
\* configured one: each of the others shows its error, the code shows none.
C17_Witness ==
    /\ lastEvent.op = "blur"
    /\ formData.procedureCode = Code_Unlisted
    /\ formData.procedureCode \notin ConfiguredCodes(form)
    /\ errors.procedureCode = NoError
    /\ \A k \in TextFieldSet \ {"procedureCode"} : errors[k] = RequiredMessage(k)

\* The value is not empty and meets the rule of its field.
SatisfiesRule(f, data, k, value) ==
    /\ value # EmptyStr
    /\ CASE k = "patientId" -> CanonicalUuid(value)
         [] k = "physicianName" -> Len(value) >= MinNameLength
         [] k = "npiNumber" -> TenDigits(value)
         [] k = "procedureCode" -> value \in ConfiguredCodes(f)
         [] k = "endDate" -> data.startDate = EmptyStr \/ ~CalendarBefore(value, data.startDate)
         [] OTHER -> TRUE

\* C19: for each of the seven fields, validateField returns the field's own
\* required reason on the empty value and no error on a value that meets the
\* field's rule; a physicianName of one character gets "Name must be at least
\* 2 characters" and one of two or more characters gets no error.
C19_RequiredThenRule ==
    \A k \in TextFieldSet :
        LET value == formData[k]
            r     == validateField(form, formData, k, value)
        IN  /\ value = EmptyStr => r = RequiredMessage(k)
            /\ SatisfiesRule(form, formData, k, value) => r = NoError
            /\ k = "physicianName" /\ Len(value) = 1 =>
                   r = "Name must be at least 2 characters"

-----------------------------------------------------------------------------
(* No automatic retry *)

\* C20: the call is made by submit events only, once per submit event that
\* passes validation: an outcome consumes the pending call and makes no new
\* one, and no other event touches the calls; after a failed call nothing is
\* pending until the next submit.
C20_NoAutomaticRetry ==
    /\ [][IF lastEvent'.op = "submit_start"
            THEN inflight' = Append(inflight, Payload(formData))
          ELSE IF lastEvent'.op \in {"resolve_ok", "resolve_err"}
            THEN inflight' = Tail(inflight)
          ELSE inflight' = inflight]_vars
    /\ [](lastEvent.op = "resolve_err" => inflight = << >> /\ ~isSubmitting)
    /\ [][inflight = << >> /\ inflight' # << >> => SubmitHandled]_vars

\* After a failed call the user has gone back to the fields and no call is
\* pending.
C20_Witness ==
    /\ lastEvent.op = "blur"
    /\ toast = SubmitErrorToast
    /\ inflight = << >>
    /\ ~isSubmitting

-----------------------------------------------------------------------------
(* The field events *)

\* C21: a blur event of a field validates the field's current value, whether
\* or not the field was ever changed, and stores the result in errors under
\* the field's name; on the freshly mounted form a blur of any field shows
\* that field's required error; a blur changes neither formData nor the
\* error of any other field.
C21_BlurValidates ==
    /\ [](lastEvent.op = "mount" =>
            \A name \in TextFieldSet :
                ENABLED (handleBlur(name) /\ errors'[name] = RequiredMessage(name)))
    /\ [][lastEvent'.op = "blur" =>
            /\ formData' = formData
            /\ \E name \in TextFieldSet :
                  /\ errors'[name] = validateField(form, formData, name, formData[name])
                  /\ \A k \in TextFieldSet \ {name} : errors'[k] = errors[k]
            /\ UNCHANGED <<isSubmitting, toast, inflight>>]_vars

\* A blur of the date of birth, on a form nothing was entered into.
C21_Witness ==
    /\ lastEvent.op = "blur"
    /\ formData = InitialFormData
    /\ errors = [NoErrors EXCEPT !.dob = "Date of Birth is required"]

\* C22: a change event of a validated field stores the new value in formData
\* and the result of validateField on the new value in errors under the
\* field's name, and leaves every other field, the attached file and the
\* submission status as they were; a change event of hasNotes writes nothing
\* to errors.
C22_ChangeValidatesNewValue ==
    [][lastEvent'.op = "change" =>
          /\ \E name \in ChangeNames :
                /\ formData' = [formData EXCEPT ![name] = formData'[name]]
                /\ formData'[name] # formData[name]
                /\ IF name = "hasNotes"
                   THEN errors' = errors
                   ELSE /\ errors'[name] =
                               validateField(form, formData', name, formData'[name])
                        /\ \A k \in TextFieldSet \ {name} : errors'[k] = errors[k]
          /\ UNCHANGED <<isSubmitting, toast, inflight>>]_vars

\* The flag was ticked beside a nine-digit NPI, whose error is on display.
C22_Witness ==
    /\ lastEvent.op = "change"
    /\ ~isSubmitting
    /\ formData.hasNotes
    /\ formData.uploadedFile = NoFile
    /\ formData.npiNumber = SampleShortNpi
    /\ errors.npiNumber = "NPI must be exactly 10 digits"

-----------------------------------------------------------------------------
(* The submit event *)

\* C23: a submit that fails validation leaves formData (the attached file and
\* hasNotes included) unchanged, leaves the form not submitting, with the
\* submit button enabled and no call made, and shows the one error
\* notification that asks to fix the validation errors.
C23_InvalidSubmitNotifies ==
    [][lastEvent'.op = "submit_invalid" =>
          /\ formData' = formData
          /\ ~isSubmitting'
          /\ ~SubmitDisabled'
          /\ inflight' = inflight
          /\ toast' = FixErrorsToast]_vars

\* C24: on the freshly mounted form the seven text fields are empty,
\* hasNotes is false, no file is attached, no field shows an error although
\* validateField rejects every one of them, the form is not submitting, no
\* call is pending and no notification is on display.
C24_InitialState ==
    lastEvent.op = "mount" =>
        /\ \A k \in TextFieldSet : formData[k] = EmptyStr
        /\ formData.hasNotes = FALSE
        /\ formData.uploadedFile = NoFile
        /\ \A k \in TextFieldSet : errors[k] = NoError
        /\ InvalidFields(form, formData) = TextFieldSet
        /\ ~isSubmitting
        /\ inflight = << >>
        /\ toast = NoToast

C24_Witness ==
    /\ lastEvent.op = "mount"
    /\ form = ClaimSubmissionForm
    /\ errors = NoErrors
    /\ \A k \in TextFieldSet : validateField(form, formData, k, formData[k]) = RequiredMessage(k)

\* C25: the form starts submitting, and the call is made, only from a state
\* in which validateField accepts the current value of every one of the seven
\* fields, whatever errors shows for them: handleSubmit decides on a fresh
\* validation of formData, not on the errors on display.
C25_SubmitsOnlyValidForm ==
    [][(isSubmitting' /\ ~isSubmitting) \/ Len(inflight') > Len(inflight) =>
          /\ SubmitHandled
          /\ InvalidFields(form, formData) = {}
          /\ formData' = formData]_vars

\* A submit was refused for an end date before the start date alone.
C25_Witness ==
    /\ lastEvent.op = "submit_invalid"
    /\ ~isSubmitting
    /\ inflight = << >>
    /\ formData.startDate = Date_2024_01_10
    /\ formData.endDate = Date_2024_01_05
    /\ InvalidFields(form, formData) = {"endDate"}
    /\ errors = [NoErrors EXCEPT !.endDate = "End Date cannot be before Start Date"]

\* C26: isFormValid replaces errors: right after a handled submit the fields
\* with an error are exactly the fields whose current value is invalid, an
\* error shown before for a field that is valid now is gone, and errors is
\* empty when the form starts submitting.
C26_SubmitReplacesErrors ==
    [][SubmitHandled =>
          /\ {k \in TextFieldSet : errors'[k] # NoError} = InvalidFields(form, formData)
          /\ \A k \in TextFieldSet :
                errors'[k] = validateField(form, formData, k, formData[k])
          /\ lastEvent'.op = "submit_start" => errors' = NoErrors]_vars

\* The form started submitting with the start date moved before the end.
C26_Witness ==
    /\ lastEvent.op = "submit_start"
    /\ isSubmitting
    /\ errors = NoErrors
    /\ formData.startDate = Date_2024_01_01
    /\ formData.endDate = Date_2024_01_05

\* C27: in every reachable state isSubmitting is true exactly when one call
\* is pending; two calls are never pending, so no outcome clears isSubmitting
\* while a later call is pending.
C27_SubmittingIffOnePending ==
    /\ [](Len(inflight) <= 1)
    /\ [](isSubmitting <=> Len(inflight) = 1)
    /\ [][lastEvent'.op \in {"resolve_ok", "resolve_err"} =>
             ~isSubmitting' /\ inflight' = << >>]_vars

\* A file was attached while the one call is pending.
C27_Witness ==
    /\ isSubmitting
    /\ Len(inflight) = 1
    /\ lastEvent.op = "file_accept"

-----------------------------------------------------------------------------
(* The extension of a file name *)

\* The lower-cased text after the last '.' of the name, the whole name
\* lower-cased when it holds no '.'.
DerivedExtension(file) ==
    IF HasExtension(file) THEN ExtensionOf(file) ELSE toLowerCase(file.name)

\* C28: handleFileChange takes as extension the lower-cased text after the
\* last '.' of the file name, and the whole name when it holds no '.'; the
\* type check passes exactly when that text is pdf, doc or docx, so scan.PDF
\* and a.b.docx are accepted, notes.pdf.exe is rejected, and a file named
\* pdf, doc or docx of an allowed size is accepted and attached.
C28_ExtensionDerivation ==
    FileOffered =>
        LET file == lastEvent.file
        IN  /\ fileExt(file) = <<".">> \o DerivedExtension(file)
            /\ (lastEvent.op = "file_reject_type") <=>
                   DerivedExtension(file) \notin ClaimedExtensions
            /\ (lastEvent.op = "file_accept") <=>
                   /\ DerivedExtension(file) \in ClaimedExtensions
                   /\ file.size <= ClaimedCeiling
            /\ file.name \in {Name_scan_PDF, Name_a_b_docx, Name_pdf, Name_doc, Name_docx}
                  /\ file.size <= ClaimedCeiling =>
                   /\ lastEvent.op = "file_accept"
                   /\ formData.uploadedFile = file
            /\ file.name = Name_notes_pdf_exe => lastEvent.op = "file_reject_type"

\* A file named docx, with no dot, has been attached.
C28_Witness ==
    /\ lastEvent.op = "file_accept"
    /\ lastEvent.file.name = Name_docx
    /\ formData.uploadedFile = lastEvent.file
    /\ formData.hasNotes

-----------------------------------------------------------------------------
(* The notification slot *)

SubmitOutcome == lastEvent.op \in {"resolve_ok", "resolve_err"}

\* C29: PriorAuthForm has one notification slot, which the latest event
\* overwrites: the notification is cleared when the form starts submitting,
\* and the outcome of the call puts its own notification in the place of
\* whatever the slot held, so that right after the outcome, and until the
\* next event, the notification on display is the outcome's.
C29_NotificationSlot ==
    /\ [](form = PriorAuthForm /\ lastEvent.op = "submit_start" => toast = NoToast)
    /\ [](form = PriorAuthForm /\ SubmitOutcome =>
             toast = IF lastEvent.op = "resolve_ok"
                     THEN SubmitSuccessToast ELSE SubmitErrorToast)
    /\ [][form = PriorAuthForm /\ toast' # toast =>
             toast' = CASE lastEvent'.op = "submit_invalid" -> FixErrorsToast
                        [] lastEvent'.op = "submit_start" -> NoToast
                        [] lastEvent'.op = "resolve_ok" -> SubmitSuccessToast
                        [] lastEvent'.op = "resolve_err" -> SubmitErrorToast
                        [] lastEvent'.op = "file_accept" -> FileReadyToast(lastEvent'.file)
                        [] lastEvent'.op = "file_reject_type" -> InvalidTypeToast
                        [] lastEvent'.op = "file_reject_size" -> TooLargeToast
                        [] lastEvent'.op = "close" -> NoToast
                        [] OTHER -> toast]_vars

\* The call has succeeded after a file was attached.
C29_Witness ==
    /\ form = PriorAuthForm
    /\ lastEvent.op = "resolve_ok"
    /\ toast = SubmitSuccessToast
    /\ formData.uploadedFile # NoFile
    /\ ~isSubmitting

====
